---------------------------- MODULE Spec2Model ----------------------------
(***************************************************************************)
(* Model of src/myapi.py: a FastAPI service over one module-level dict,    *)
(* `students`, with the routes index, get-student, get-by-name (twice),    *)
(* create-student, update-student and delete-student.                      *)
(*                                                                         *)
(* JSON scalars are written J(v) = <<v>> and Python's None is <<>>, so     *)
(* that a str, an int and None can sit in the same field and be compared.  *)
(* The dict `students` is a sequence of entries [id, rec] in insertion     *)
(* order (a Python dict iterates in insertion order; assigning to an       *)
(* existing key keeps its position, del removes the entry, a later insert  *)
(* of the same key goes to the end).                                       *)
(*                                                                         *)
(* Spec serves one request at a time, each handler one step. SpecConc      *)
(* runs the handlers in two worker threads, one access of the dict a step. *)
(***************************************************************************)
EXTENDS Integers, Sequences, FiniteSets, TLC

----------------------------------------------------------------------------
(* JSON values *)

None == <<>>

J(v) == <<v>>

----------------------------------------------------------------------------
(* Bounds of the model *)

\* the largest number of entries a create is let to grow the dict to
MaxStudents == 2

\* the number of requests the concurrent specification dispatches
MaxRequests == 3

----------------------------------------------------------------------------
(* Input domains *)

\* Path(gt=0, lt=4)
GT == 0

LT == 4

\* the ids requests are sent with: the ids that pass the bound and the first
\* that does not, which a create can still use as a key
Ids == (GT + 1) .. LT

\* the ids get-student is asked for: both bounds and one id beyond each
PathIds == (GT - 1) .. (LT + 1)

Names == {"anurag adarsh", "mohit"}

QueryNames == {None} \cup {J(n) : n \in Names \cup {"zzz"}}

Ages == {20, 22}

Years == {"year 26", "year 27"}

Fields == {"name", "age", "year"}

\* class Student(BaseModel): the bodies that pass validation, as .dict()
Student == [name : {J(n) : n \in Names}, age : {J(a) : a \in Ages},
            year : {J(y) : y \in Years}]

\* class UpdateStudent(BaseModel): every field Optional, default None
UpdateStudent == [name : {None} \cup {J(n) : n \in Names},
                  age : {None} \cup {J(a) : a \in Ages},
                  year : {None} \cup {J(y) : y \in Years}]

\* the query parameter test: int, required; None stands for "omitted"
Tests == {None, J(1)}

----------------------------------------------------------------------------
(* The dict *)

\* students = { 1: {...}, 2: {...} }
SeedStudents ==
    << [id |-> 1, rec |-> [name |-> J("anurag adarsh"), age |-> J(20),
                           year |-> J("year 26")]],
       [id |-> 2, rec |-> [name |-> J("mohit"), age |-> J(22),
                           year |-> J("year 26")]] >>

\* the keys, as a set
Keys(d) == {d[i].id : i \in 1 .. Len(d)}

\* key in d
Contains(d, k) == \E i \in 1 .. Len(d) : d[i].id = k

\* the position of key k (k is a key)
IndexOf(d, k) == CHOOSE i \in 1 .. Len(d) : d[i].id = k

\* d[k] (k is a key)
GetItem(d, k) == d[IndexOf(d, k)].rec

\* d[k] = v
SetItem(d, k, v) ==
    IF Contains(d, k)
    THEN [d EXCEPT ![IndexOf(d, k)].rec = v]
    ELSE Append(d, [id |-> k, rec |-> v])

\* del d[k] (k is a key)
DelItem(d, k) ==
    LET p == IndexOf(d, k)
    IN  SubSeq(d, 1, p - 1) \o SubSeq(d, p + 1, Len(d))

\* d[k][f] = v (k is a key)
SetField(d, k, f, v) == [d EXCEPT ![IndexOf(d, k)].rec[f] = v]

----------------------------------------------------------------------------
(* Responses *)

Ok(body) == [status |-> 200, body |-> body]

\* FastAPI's answer to a request that fails validation
Unprocessable == [status |-> 422, body |-> [detail |-> J("validation error")]]

\* raise HTTPException(status_code=404, detail="Student not found")
NotFound == [status |-> 404, body |-> [detail |-> J("Student not found")]]

DataNotFound == Ok([Data |-> J("Not found")])

ErrExists == Ok([Error |-> J("Student exists")])

ErrUpdate == Ok([Error |-> J("Students does not exits")])

ErrDelete == Ok([Error |-> J("Student does not exists")])

MsgDeleted == Ok([Message |-> J("Student deleted successfully")])

----------------------------------------------------------------------------
(* The handlers, each as the pair (dict after, response) *)

Reply(d, r) == [store |-> d, resp |-> r]

index(d) == Reply(d, Ok([name |-> J("First Data")]))

\* Mutant of ValidStudentId: the upper bound let in, le=4 for lt=4
ValidStudentId_le(student_id) == student_id > GT /\ student_id <= LT

\* gt=0, lt=4
ValidStudentId(student_id) == student_id > GT /\ student_id < LT

\* Mutant of get_student: the missing record reported in a 200 payload, as
\* the other routes report theirs
get_student_200(d, student_id) ==
    IF ~ValidStudentId(student_id) THEN Reply(d, Unprocessable)
    ELSE IF ~Contains(d, student_id)
    THEN Reply(d, Ok([detail |-> J("Student not found")]))
    ELSE Reply(d, Ok(GetItem(d, student_id)))

get_student(d, student_id) ==
    IF ~ValidStudentId(student_id) THEN Reply(d, Unprocessable)
    ELSE IF ~Contains(d, student_id) THEN Reply(d, NotFound)
    ELSE Reply(d, Ok(GetItem(d, student_id)))

\* Mutant of Scan: the loop runs to the end and the last match is returned
RECURSIVE Scan_last(_, _, _)
Scan_last(d, i, name) ==
    IF i > Len(d) THEN DataNotFound
    ELSE LET rest == Scan_last(d, i + 1, name)
         IN  IF rest # DataNotFound THEN rest
             ELSE IF GetItem(d, d[i].id)["name"] = name
             THEN Ok(GetItem(d, d[i].id))
             ELSE DataNotFound

\* for student_id in students: if students[student_id]["name"] == name: return
RECURSIVE Scan(_, _, _)
Scan(d, i, name) ==
    IF i > Len(d) THEN DataNotFound
    ELSE IF GetItem(d, d[i].id)["name"] = name THEN Ok(GetItem(d, d[i].id))
    ELSE Scan(d, i + 1, name)

get_student_by_name(d, name, test) ==
    IF test = None THEN Reply(d, Unprocessable)
    ELSE Reply(d, Scan(d, 1, name))

get_student_by_name_combine(d, student_id, name, test) ==
    IF test = None THEN Reply(d, Unprocessable)
    ELSE Reply(d, Scan(d, 1, name))

\* Mutant of create_student: the record is written before the check
create_student_overwrite(d, student_id, student) ==
    LET d1 == SetItem(d, student_id, student)
    IN  IF Contains(d, student_id) THEN Reply(d1, ErrExists)
        ELSE Reply(d1, Ok(GetItem(d1, student_id)))

\* Mutant of create_student: the body is returned and never stored
create_student_nostore(d, student_id, student) ==
    IF Contains(d, student_id) THEN Reply(d, ErrExists)
    ELSE Reply(d, Ok(student))

create_student(d, student_id, student) ==
    IF Contains(d, student_id) THEN Reply(d, ErrExists)
    ELSE LET d1 == SetItem(d, student_id, student)
         IN  Reply(d1, Ok(GetItem(d1, student_id)))

\* Mutant of UpdateField: the field is written without the test for None
UpdateField_always(d, student_id, student, f) ==
    SetField(d, student_id, f, student[f])

\* if student.f is not None: students[student_id][f] = student.f
UpdateField(d, student_id, student, f) ==
    IF student[f] # None THEN SetField(d, student_id, f, student[f]) ELSE d

\* Mutant of update_student: the year is written under the test of the age
update_student_typo(d, student_id, student) ==
    IF ~Contains(d, student_id) THEN Reply(d, ErrUpdate)
    ELSE LET d1 == UpdateField(d, student_id, student, "name")
             d2 == UpdateField(d1, student_id, student, "age")
             d3 == IF student["age"] # None /\ student["year"] # None
                   THEN SetField(d2, student_id, "year", student["year"])
                   ELSE d2
         IN  Reply(d3, Ok(GetItem(d3, student_id)))

update_student(d, student_id, student) ==
    IF ~Contains(d, student_id) THEN Reply(d, ErrUpdate)
    ELSE LET d1 == UpdateField(d, student_id, student, "name")
             d2 == UpdateField(d1, student_id, student, "age")
             d3 == UpdateField(d2, student_id, student, "year")
         IN  Reply(d3, Ok(GetItem(d3, student_id)))

\* Mutant of delete_student: the success message without the del
delete_student_nodel(d, student_id) ==
    IF ~Contains(d, student_id) THEN Reply(d, ErrDelete)
    ELSE Reply(d, MsgDeleted)

delete_student(d, student_id) ==
    IF ~Contains(d, student_id) THEN Reply(d, ErrDelete)
    ELSE Reply(DelItem(d, student_id), MsgDeleted)

----------------------------------------------------------------------------
(* Sequential service: one request at a time, each handler one step.      *)
(* The state of the program is the dict; a response is the value of the    *)
(* handler's operator and is not kept.                                     *)

VARIABLES
    students,    \* the module-level dict
    pc,          \* per worker thread: the place in the handler it runs
    rq,          \* per worker thread: the request it serves
    ret,         \* per worker thread: the response of its last request
    loc,         \* per worker thread: the dict iterator and loop variable
    dispatched   \* the number of requests handed to the worker threads

cvars == <<pc, rq, ret, loc, dispatched>>

vars == <<students, pc, rq, ret, loc, dispatched>>

\* the worker threads of the threadpool that runs the def handlers
Threads == {1, 2}

NoRequest == [op |-> "none"]

NoResponse == [status |-> 0, body |-> [detail |-> J("none")]]

NoLocals == [pos |-> 0, used |-> 0, len |-> 0, key |-> 0]

Init ==
    /\ students = SeedStudents
    /\ pc = [t \in Threads |-> "idle"]
    /\ rq = [t \in Threads |-> NoRequest]
    /\ ret = [t \in Threads |-> NoResponse]
    /\ loc = [t \in Threads |-> NoLocals]
    /\ dispatched = 0

Index == students' = index(students).store /\ UNCHANGED cvars

GetStudent ==
    \E id \in PathIds :
        /\ students' = get_student(students, id).store
        /\ UNCHANGED cvars

GetStudentByName ==
    \E n \in QueryNames, t \in Tests :
        /\ students' = get_student_by_name(students, n, t).store
        /\ UNCHANGED cvars

GetStudentByNameCombine ==
    \E id \in PathIds, n \in QueryNames, t \in Tests :
        /\ students' = get_student_by_name_combine(students, id, n, t).store
        /\ UNCHANGED cvars

\* the dict is let to grow to MaxStudents entries
CreateStudent ==
    \E id \in Ids, s \in Student :
        /\ Contains(students, id) \/ Len(students) < MaxStudents
        /\ students' = create_student(students, id, s).store
        /\ UNCHANGED cvars

UpdateStudentStep ==
    \E id \in Ids, s \in UpdateStudent :
        /\ students' = update_student(students, id, s).store
        /\ UNCHANGED cvars

DeleteStudent ==
    \E id \in Ids :
        /\ students' = delete_student(students, id).store
        /\ UNCHANGED cvars

Next ==
    \/ Index
    \/ GetStudent
    \/ GetStudentByName
    \/ GetStudentByNameCombine
    \/ CreateStudent
    \/ UpdateStudentStep
    \/ DeleteStudent

Spec == Init /\ [][Next]_vars

----------------------------------------------------------------------------
(* Concurrent service: FastAPI runs a `def` handler in a worker thread, so *)
(* two handlers interleave on the dict, which no lock guards. A step is    *)
(* one access of the dict. An exception no handler catches ends the        *)
(* request at pc "raised".                                                 *)

\* the requests the worker threads are handed
ConcStudents == {[name |-> J("mohit"), age |-> J(20), year |-> J("year 27")],
                 [name |-> J("anurag adarsh"), age |-> J(22),
                  year |-> J("year 26")]}

ConcUpdates == {[name |-> None, age |-> J(20), year |-> None],
                [name |-> J("anurag adarsh"), age |-> J(20),
                 year |-> J("year 27")]}

ConcIds == {2, 3}

ConcRequests ==
    {[op |-> "get_student", student_id |-> id] : id \in {2, LT}}
    \cup {[op |-> "get_student_by_name", name |-> n, test |-> J(1)] :
              n \in {J("mohit"), J("zzz")}}
    \cup {[op |-> "get_student_by_name_combine", student_id |-> 2,
           name |-> J("mohit"), test |-> J(1)]}
    \cup {[op |-> "create_student", student_id |-> id, student |-> s] :
              id \in ConcIds, s \in ConcStudents}
    \cup {[op |-> "update_student", student_id |-> id, student |-> s] :
              id \in ConcIds, s \in ConcUpdates}
    \cup {[op |-> "delete_student", student_id |-> id] : id \in ConcIds}

\* the exception reaches the server: no response of the handler
Unhandled(e) == [status |-> 500, body |-> [exception |-> J(e)]]

\* the request passes FastAPI's validation of its parameters
Validates(r) ==
    CASE r.op = "get_student" -> ValidStudentId(r.student_id)
      [] r.op \in {"get_student_by_name", "get_student_by_name_combine"} ->
             r.test # None
      [] OTHER -> TRUE

\* the first step of the handler of the route
Entry(r) ==
    CASE r.op = "get_student" -> "get_student_check"
      [] r.op \in {"get_student_by_name", "get_student_by_name_combine"} ->
             "scan_iter"
      [] r.op = "create_student" -> "create_student_check"
      [] r.op = "update_student" -> "update_student_check"
      [] r.op = "delete_student" -> "delete_student_check"

Goto(t, label) == pc' = [pc EXCEPT ![t] = label]

Return(t, r) ==
    /\ pc' = [pc EXCEPT ![t] = "done"]
    /\ ret' = [ret EXCEPT ![t] = r]

Raise(t, e) ==
    /\ pc' = [pc EXCEPT ![t] = "raised"]
    /\ ret' = [ret EXCEPT ![t] = Unhandled(e)]

\* a free worker thread takes a request
Dispatch(t) ==
    /\ pc[t] \in {"idle", "done", "raised"}
    /\ dispatched < MaxRequests
    /\ dispatched' = dispatched + 1
    /\ \E r \in ConcRequests :
           /\ rq' = [rq EXCEPT ![t] = r]
           /\ loc' = [loc EXCEPT ![t] = NoLocals]
           /\ IF Validates(r)
              THEN /\ pc' = [pc EXCEPT ![t] = Entry(r)]
                   /\ ret' = [ret EXCEPT ![t] = NoResponse]
              ELSE Return(t, Unprocessable)
    /\ UNCHANGED students

\* if student_id not in students: raise HTTPException(404)
get_student_check(t) ==
    /\ pc[t] = "get_student_check"
    /\ IF ~Contains(students, rq[t].student_id)
       THEN Return(t, NotFound)
       ELSE Goto(t, "get_student_return") /\ UNCHANGED ret
    /\ UNCHANGED <<students, rq, loc, dispatched>>

\* return students[student_id]
get_student_return(t) ==
    /\ pc[t] = "get_student_return"
    /\ IF ~Contains(students, rq[t].student_id)
       THEN Raise(t, "KeyError")
       ELSE Return(t, Ok(GetItem(students, rq[t].student_id)))
    /\ UNCHANGED <<students, rq, loc, dispatched>>

\* for student_id in students: the iterator is made, with the size it saw
scan_iter(t) ==
    /\ pc[t] = "scan_iter"
    /\ loc' = [loc EXCEPT ![t] = [pos |-> 1, used |-> Len(students),
                                  len |-> Len(students), key |-> 0]]
    /\ Goto(t, "scan_next")
    /\ UNCHANGED <<students, rq, ret, dispatched>>

\* the iterator's next: RuntimeError when the dict changed size, or when an
\* entry is left after as many keys as the dict had were given out
scan_next(t) ==
    /\ pc[t] = "scan_next"
    /\ IF loc[t].used # Len(students)
       THEN Raise(t, "RuntimeError") /\ UNCHANGED loc
       ELSE IF loc[t].pos > Len(students)
       THEN Return(t, DataNotFound) /\ UNCHANGED loc
       ELSE IF loc[t].len = 0
       THEN Raise(t, "RuntimeError") /\ UNCHANGED loc
       ELSE /\ loc' = [loc EXCEPT ![t].key = students[loc[t].pos].id,
                                  ![t].pos = @ + 1,
                                  ![t].len = @ - 1]
            /\ Goto(t, "scan_test")
            /\ UNCHANGED ret
    /\ UNCHANGED <<students, rq, dispatched>>

\* if students[student_id]["name"] == name:
scan_test(t) ==
    /\ pc[t] = "scan_test"
    /\ IF ~Contains(students, loc[t].key)
       THEN Raise(t, "KeyError")
       ELSE /\ IF GetItem(students, loc[t].key)["name"] = rq[t].name
               THEN Goto(t, "scan_return")
               ELSE Goto(t, "scan_next")
            /\ UNCHANGED ret
    /\ UNCHANGED <<students, rq, loc, dispatched>>

\* return students[student_id]
scan_return(t) ==
    /\ pc[t] = "scan_return"
    /\ IF ~Contains(students, loc[t].key)
       THEN Raise(t, "KeyError")
       ELSE Return(t, Ok(GetItem(students, loc[t].key)))
    /\ UNCHANGED <<students, rq, loc, dispatched>>

\* if student_id in students: return {"Error": "Student exists"}
create_student_check(t) ==
    /\ pc[t] = "create_student_check"
    /\ IF Contains(students, rq[t].student_id)
       THEN Return(t, ErrExists)
       ELSE Goto(t, "create_student_store") /\ UNCHANGED ret
    /\ UNCHANGED <<students, rq, loc, dispatched>>

\* Mutant of create_student_store: the insert leaves a record that is
\* there by now (students.setdefault(student_id, student.dict()))
create_student_store_ifabsent(t) ==
    /\ pc[t] = "create_student_store"
    /\ students' = IF Contains(students, rq[t].student_id) THEN students
                   ELSE SetItem(students, rq[t].student_id, rq[t].student)
    /\ Goto(t, "create_student_return")
    /\ UNCHANGED <<rq, ret, loc, dispatched>>

\* students[student_id] = student.dict()
create_student_store(t) ==
    /\ pc[t] = "create_student_store"
    /\ students' = SetItem(students, rq[t].student_id, rq[t].student)
    /\ Goto(t, "create_student_return")
    /\ UNCHANGED <<rq, ret, loc, dispatched>>

\* return students[student_id]
create_student_return(t) ==
    /\ pc[t] = "create_student_return"
    /\ IF ~Contains(students, rq[t].student_id)
       THEN Raise(t, "KeyError")
       ELSE Return(t, Ok(GetItem(students, rq[t].student_id)))
    /\ UNCHANGED <<students, rq, loc, dispatched>>

\* if student_id not in students: return {"Error": "Students does not exits"}
update_student_check(t) ==
    /\ pc[t] = "update_student_check"
    /\ IF ~Contains(students, rq[t].student_id)
       THEN Return(t, ErrUpdate)
       ELSE Goto(t, "update_student_name") /\ UNCHANGED ret
    /\ UNCHANGED <<students, rq, loc, dispatched>>

\* if student.f is not None: students[student_id][f] = student.f
update_student_field(t, f, after) ==
    /\ pc[t] = "update_student_" \o f
    /\ IF rq[t].student[f] = None
       THEN Goto(t, after) /\ UNCHANGED <<students, ret>>
       ELSE IF ~Contains(students, rq[t].student_id)
       THEN Raise(t, "KeyError") /\ UNCHANGED students
       ELSE /\ students' = SetField(students, rq[t].student_id, f,
                                    rq[t].student[f])
            /\ Goto(t, after)
            /\ UNCHANGED ret
    /\ UNCHANGED <<rq, loc, dispatched>>

\* return students[student_id]
update_student_return(t) ==
    /\ pc[t] = "update_student_return"
    /\ IF ~Contains(students, rq[t].student_id)
       THEN Raise(t, "KeyError")
       ELSE Return(t, Ok(GetItem(students, rq[t].student_id)))
    /\ UNCHANGED <<students, rq, loc, dispatched>>

\* if student_id not in students: return {"Error": "Student does not exists"}
delete_student_check(t) ==
    /\ pc[t] = "delete_student_check"
    /\ IF ~Contains(students, rq[t].student_id)
       THEN Return(t, ErrDelete)
       ELSE Goto(t, "delete_student_del") /\ UNCHANGED ret
    /\ UNCHANGED <<students, rq, loc, dispatched>>

\* a live iterator keeps its place in the dict's entries when an entry
\* before that place is removed (the dict leaves a dead slot there, and it
\* is not resized by the few inserts of a run)
AfterDel(l, p) == IF l.pos > p THEN [l EXCEPT !.pos = @ - 1] ELSE l

\* del students[student_id]; return {"Message": ...}
delete_student_del(t) ==
    /\ pc[t] = "delete_student_del"
    /\ IF ~Contains(students, rq[t].student_id)
       THEN Raise(t, "KeyError") /\ UNCHANGED <<students, loc>>
       ELSE /\ students' = DelItem(students, rq[t].student_id)
            /\ loc' = [u \in Threads |->
                          AfterDel(loc[u],
                                   IndexOf(students, rq[t].student_id))]
            /\ Return(t, MsgDeleted)
    /\ UNCHANGED <<rq, dispatched>>

NextConc ==
    \E t \in Threads :
        \/ Dispatch(t)
        \/ get_student_check(t)
        \/ get_student_return(t)
        \/ scan_iter(t)
        \/ scan_next(t)
        \/ scan_test(t)
        \/ scan_return(t)
        \/ create_student_check(t)
        \/ create_student_store(t)
        \/ create_student_return(t)
        \/ update_student_check(t)
        \/ update_student_field(t, "name", "update_student_age")
        \/ update_student_field(t, "age", "update_student_year")
        \/ update_student_field(t, "year", "update_student_return")
        \/ update_student_return(t)
        \/ delete_student_check(t)
        \/ delete_student_del(t)

SpecConc == Init /\ [][NextConc]_vars

----------------------------------------------------------------------------
(* Helpers of the properties *)

\* the entry of the dict d at key k, found by position
EntryAt(d, k) == {d[i].rec : i \in {j \in 1 .. Len(d) : d[j].id = k}}

\* the ids of the dict d, in insertion order
KeySeq(d) == [i \in 1 .. Len(d) |-> d[i].id]

\* every entry of d is in e, unchanged and at the same position
SameEntries(d, e) ==
    /\ Len(d) <= Len(e)
    /\ \A i \in 1 .. Len(d) : e[i] = d[i]

Rec(n, a, y) == [name |-> J(n), age |-> J(a), year |-> J(y)]

----------------------------------------------------------------------------
(* C1: in every reachable dict, get-student answers 422 for an id outside  *)
(* 0 < id < 4, a key of the dict or not; 404 "Student not found" for an id *)
(* of 1..3 that is no key; and 200 with the record stored at the id for an *)
(* id of 1..3 that is a key. The dict is left alone.                       *)
C1_GetStudentOutcomes ==
    \A id \in PathIds :
        LET r == get_student(students, id)
        IN  /\ r.store = students
            /\ ~(0 < id /\ id < 4) =>
                   /\ r.resp.status = 422
                   /\ r.resp = Unprocessable
            /\ (id \in {1, 2, 3} /\ id \notin Keys(students)) =>
                   /\ r.resp.status = 404
                   /\ r.resp.body = [detail |-> J("Student not found")]
            /\ (id \in {1, 2, 3} /\ id \in Keys(students)) =>
                   /\ r.resp.status = 200
                   /\ EntryAt(students, id) = {r.resp.body}

\* a dict in which the three outcomes all occur: 4 is a key and is refused,
\* 3 is no key, 2 is a key
C1_Witness ==
    /\ Keys(students) = {2, 4}
    /\ get_student(students, 4).resp.status = 422
    /\ get_student(students, 3).resp.status = 404
    /\ get_student(students, 2).resp.status = 200

(* C2: a create at a key of the dict, and an update or a delete at an id   *)
(* that is no key, answer with their "Error" payload; and whenever one of  *)
(* the three answers with its "Error" payload the dict is what it was.     *)
C2_ErrorLeavesStore ==
    \A id \in Ids :
        /\ \A s \in Student :
               LET r == create_student(students, id, s)
               IN  /\ id \in Keys(students) => r.resp = ErrExists
                   /\ r.resp = ErrExists => r.store = students
        /\ \A s \in UpdateStudent :
               LET r == update_student(students, id, s)
               IN  /\ id \notin Keys(students) => r.resp = ErrUpdate
                   /\ r.resp = ErrUpdate => r.store = students
        /\ LET r == delete_student(students, id)
           IN  /\ id \notin Keys(students) => r.resp = ErrDelete
               /\ r.resp = ErrDelete => r.store = students

\* a dict, other than the seed, where the three errors occur
C2_Witness ==
    /\ Keys(students) = {1, 3}
    /\ create_student(students, 3, Rec("mohit", 20, "year 27")).resp = ErrExists
    /\ update_student(students, 2, [name |-> None, age |-> J(20),
                                    year |-> None]).resp = ErrUpdate
    /\ delete_student(students, 2).resp = ErrDelete

(* C3: a create at an id that is no key, with a complete Student, adds     *)
(* that key with the three values of the body, leaves every other entry as *)
(* it was, and answers 200 with the stored record; for an id of 1..3 a     *)
(* get-student right after answers 200 with the same record.               *)
C3_CreateFresh ==
    \A id \in Ids \ Keys(students) :
        \A s \in Student :
            LET r == create_student(students, id, s)
            IN  /\ Keys(r.store) = Keys(students) \cup {id}
                /\ Len(r.store) = Len(students) + 1
                /\ SameEntries(students, r.store)
                /\ EntryAt(r.store, id) = {s}
                /\ \A f \in Fields : r.store[Len(r.store)].rec[f] = s[f]
                /\ r.resp = Ok(s)
                /\ id \in {1, 2, 3} =>
                       get_student(r.store, id) = Reply(r.store, Ok(s))

\* a create has put id 3, which the seed does not have, in the dict
C3_Witness ==
    /\ 3 \in Keys(students)
    /\ 4 \notin Keys(students)
    /\ get_student(students, 3).resp = Ok(Rec("mohit", 20, "year 27"))

(* C4: an update at a key overwrites on that record the fields the body    *)
(* has, keeps the fields the body lacks, keeps every other record and the  *)
(* keys, and answers 200 with the merged record, which a get-student right *)
(* after returns too; a body with no field changes nothing.                *)
C4_UpdateMerges ==
    \A id \in Keys(students) :
        \A s \in UpdateStudent :
            LET r == update_student(students, id, s)
                old == CHOOSE x \in EntryAt(students, id) : TRUE
                new == [f \in Fields |->
                            IF s[f] = None THEN old[f] ELSE s[f]]
            IN  /\ KeySeq(r.store) = KeySeq(students)
                /\ \A i \in 1 .. Len(students) :
                       students[i].id # id => r.store[i] = students[i]
                /\ EntryAt(r.store, id) = {new}
                /\ r.resp = Ok(new)
                /\ id \in {1, 2, 3} =>
                       get_student(r.store, id) = Reply(r.store, Ok(new))
                /\ (\A f \in Fields : s[f] = None) => r.store = students

\* record 1 with the age of PUT /update-student/1 {"age": 22}, its name and
\* year those of the seed, and record 2 as seeded
C4_Witness ==
    /\ KeySeq(students) = <<1, 2>>
    /\ students[1].rec = Rec("anurag adarsh", 22, "year 26")
    /\ students[2] = SeedStudents[2]

(* C5: a delete at a key removes that key and nothing else and answers     *)
(* "Student deleted successfully"; a delete at an id that is no key, so    *)
(* every repeat of a delete, answers "Student does not exists", never the  *)
(* success message, and keeps the dict.                                    *)
C5_DeleteOnce ==
    \A id \in Ids :
        LET r == delete_student(students, id)
        IN  /\ id \in Keys(students) =>
                /\ r.resp = MsgDeleted
                /\ Keys(r.store) = Keys(students) \ {id}
                /\ Len(r.store) = Len(students) - 1
                /\ \A k \in Keys(r.store) :
                       EntryAt(r.store, k) = EntryAt(students, k)
                /\ \A i, j \in 1 .. Len(r.store) :
                       i < j => IndexOf(students, r.store[i].id)
                                    < IndexOf(students, r.store[j].id)
                /\ delete_student(r.store, id) = Reply(r.store, ErrDelete)
            /\ id \notin Keys(students) =>
                /\ r = Reply(students, ErrDelete)
                /\ r.resp # MsgDeleted

\* record 1 has been deleted and a repeat answers with the error
C5_Witness ==
    /\ KeySeq(students) = <<2>>
    /\ delete_student(students, 1).resp = ErrDelete

\* C5, the other half: an id that is no key becomes one by a create only
C5_OnlyCreateAddsKey ==
    [][\A id \in Ids :
           (id \notin Keys(students) /\ id \in Keys(students')) =>
               \E s \in Student :
                   students' = create_student(students, id, s).store]_vars

(* C6, as stated: once record 2 is deleted, get-student/2 is refused by    *)
(* the bound on the path parameter, with 422.                              *)
C6_AsStated ==
    2 \notin Keys(students) =>
        get_student(students, 2).resp.status = 422

(* C6, amended: once record 2 is deleted, get-student/2 passes the bound   *)
(* 0 < 2 < 4 and is answered by the lookup, 404 "Student not found".       *)
C6_DeletedIs404 ==
    2 \notin Keys(students) =>
        /\ get_student(students, 2) = Reply(students, NotFound)
        /\ delete_student(students, 2) = Reply(students, ErrDelete)

\* record 2 has been deleted, record 1 is still there
C6_Witness ==
    /\ KeySeq(students) = <<1>>
    /\ get_student(students, 2).resp.status = 404

(* C7: with test given, get-by-name and get-by-name/{student_id} answer    *)
(* alike for every name and student_id: the first record in insertion     *)
(* order whose name is the name asked for, {"Data": "Not found"} when      *)
(* there is none, as when name is omitted; the answer is one record and    *)
(* the dict is left alone.                                                 *)
C7_FirstMatch ==
    \A n \in QueryNames :
        LET r == get_student_by_name(students, n, J(1))
            M == {i \in 1 .. Len(students) : students[i].rec.name = n}
        IN  /\ r.store = students
            /\ \A id \in PathIds :
                   get_student_by_name_combine(students, id, n, J(1)) = r
            /\ M = {} => r.resp = DataNotFound
            /\ M # {} =>
                   \E i \in M :
                       /\ \A j \in M : i <= j
                       /\ r.resp = Ok(students[i].rec)
            /\ n = None => r.resp = DataNotFound
            /\ r.resp = DataNotFound \/ r.resp.body \in Student

\* two records of one name, the first in insertion order with the larger id
C7_Witness ==
    /\ KeySeq(students) = <<2, 1>>
    /\ students[1].rec.name = students[2].rec.name
    /\ students[1].rec # students[2].rec
    /\ get_student_by_name(students, J("mohit"), J(1)).resp
           = Ok(students[1].rec)

(* C8: every key of the dict maps to a record with the three fields name,  *)
(* age and year, none of them None.                                        *)
C8_FullyPopulated ==
    \A i \in 1 .. Len(students) :
        /\ DOMAIN students[i].rec = Fields
        /\ \A f \in Fields : students[i].rec[f] # None
        /\ students[i].rec \in Student

\* a created record that an update with {"year": ...} alone has changed
C8_Witness ==
    /\ KeySeq(students) = <<2, 3>>
    /\ students[2].rec.year = J("year 27")
    /\ students[1].rec # SeedStudents[2].rec

(* C9, as stated: whatever the interleaving of the requests the worker     *)
(* threads serve, no handler ends in an exception it does not handle.      *)
C9_EveryHandlerReturns ==
    \A t \in Threads :
        /\ pc[t] # "raised"
        /\ ret[t].status # 500

(* C10: create-student's check and insert are separate steps. A create     *)
(* that is past its check writes its body at the id whatever is there by   *)
(* then, the record of another create too; it never answers "Student       *)
(* exists"; and it answers with the record that is at the id when it       *)
(* returns, which need not be the body it sent.                            *)
C10_CreateRace ==
    [][\A t \in Threads :
           /\ (pc[t] = "create_student_check"
                   /\ pc'[t] = "create_student_store") =>
                  rq[t].student_id \notin Keys(students)
           /\ (pc[t] = "create_student_store"
                   /\ pc'[t] = "create_student_return") =>
                  EntryAt(students', rq[t].student_id) = {rq[t].student}
           /\ (pc[t] \in {"create_student_store", "create_student_return"}
                   /\ pc'[t] = "done") =>
                  /\ ret'[t] # ErrExists
                  /\ ret'[t].status = 200
                  /\ EntryAt(students', rq[t].student_id) = {ret'[t].body}
      ]_vars

\* two creates for id 3 with different bodies, the only requests served:
\* both passed the check, neither answered "Student exists", the write of
\* thread 2 replaced that of thread 1, and thread 1 was answered with the
\* body of thread 2
C10_Witness ==
    /\ dispatched = 2
    /\ \A t \in Threads : pc[t] = "done" /\ rq[t].op = "create_student"
    /\ rq[1].student_id = 3 /\ rq[2].student_id = 3
    /\ rq[1].student # rq[2].student
    /\ ret[1] # ErrExists /\ ret[2] # ErrExists
    /\ EntryAt(students, 3) = {rq[2].student}
    /\ ret[1] = Ok(rq[2].student)
    /\ ret[2] = Ok(rq[2].student)

=============================================================================
